---- MODULE Spec2Model ----
(***************************************************************************)
(* Model of the smart-asset-system frontend.                               *)
(*                                                                         *)
(*   Part 1  frontend/src/api/client.ts + auth/authStore.ts:               *)
(*           the axios client `api` with its request interceptor (bearer   *)
(*           injection) and response interceptor (refresh and replay once  *)
(*           on 401), the interceptor-free client `raw`, the tokenStore,   *)
(*           Login.submit and the logout handlers.                         *)
(*   Part 2  frontend/src/pages/Assets.tsx, Assignments.tsx, Tickets.tsx:  *)
(*           the focus effect that locates the ?focus= record in the       *)
(*           filtered, paginated rows, scrolls to it and highlights it.    *)
(*   Part 3  frontend/src/App.tsx: markAllReadMut, the bulk mark-read of   *)
(*           the notification menu with its per-item fallback.             *)
(*   Part 4  frontend/src/pages/Tickets.tsx: the effect that opens the     *)
(*           edit dialog for ?edit= and strips the parameter.              *)
(*   Part 5  frontend/src/App.tsx: markOneReadMut, the optimistic          *)
(*           mark-read of one notification with its rollback.              *)
(***************************************************************************)
EXTENDS Integers, Sequences, FiniteSets, TLC

(***************************************************************************)
(* Bounds of the model.                                                    *)
(***************************************************************************)
\* number of original requests issued through `api`
NReq == 2
\* number of credential pairs the backend can hand out
NTokens == 1

Req == 1..NReq

AccessTokens == {"a" \o ToString(i) : i \in 1..NTokens}
RefreshTokens == {"r" \o ToString(i) : i \in 1..NTokens}

(***************************************************************************)
(* authStore.ts                                                            *)
(***************************************************************************)
\* localStorage.getItem(KEY) of a key that is not set
null == <<>>

\* an absent string: `undefined`, which the code tests only for truthiness
undefined == ""

\* the value of tokenStore.get() when it is null; the code reads it only as
\* tokens?.access and tokens?.refresh, which are then both undefined
NullTokens == [access |-> undefined, refresh |-> undefined]

\* JSON.stringify of a Tokens object: the stored text, here the pair of its
\* two fields in the order of the type declaration
JSONstringify(tokens) == <<tokens.access, tokens.refresh>>

\* JSON.parse of the stored text back into a Tokens object
JSONparse(raw) == [access |-> raw[1], refresh |-> raw[2]]

\* the pairs the login endpoint answers with
Tokens == {[access |-> "a" \o ToString(i), refresh |-> "r" \o ToString(i)] : i \in 1..NTokens}

\* the pair a previous session may have left in localStorage
StaleTokens == [access |-> "a0", refresh |-> "r0"]

\* tokenStore.get(): null when the key is absent, the parsed object otherwise
tokenStore_get(ls) == IF ls = null THEN NullTokens ELSE JSONparse(ls)

\* tokenStore.set(tokens): the new content of the key
tokenStore_set(tokens) == JSONstringify(tokens)

\* tokenStore.clear(): the key is removed
tokenStore_clear == null

(***************************************************************************)
(* client.ts                                                               *)
(***************************************************************************)
AUTH_SCHEME == "Bearer"

\* a request config without an Authorization header
NoHeader == "none"

\* setAuthHeader that leaves a header the config already carries
setAuthHeader_keepExisting(config, accessToken) ==
    IF config.Authorization # NoHeader THEN config
    ELSE [config EXCEPT !.Authorization = AUTH_SCHEME \o " " \o accessToken]

\* setAuthHeader(config, accessToken): the config with the header replaced
setAuthHeader(config, accessToken) ==
    [config EXCEPT !.Authorization = AUTH_SCHEME \o " " \o accessToken]

\* a client without the request interceptor
requestInterceptor_absent(config, ls) == config

\* api.interceptors.request.use: tokens?.access is attached when present
requestInterceptor(config, ls) ==
    LET tokens == tokenStore_get(ls)
    IN  IF tokens.access # undefined
        THEN setAuthHeader(config, tokens.access)
        ELSE config

\* the config a caller hands to api.get / api.post / api.patch
NewConfig == [_retry |-> FALSE, Authorization |-> NoHeader]

\* HTTP statuses the backend answers an `api` request with; 0 stands for an
\* error without a response (network failure, 30 s timeout)
ErrorStatus == {401, 500, 0}

\* an AxiosError: its response status, whether error.config is set, and the
\* attempt (1 = original send, 2 = replay) whose failure it reports; the
\* errors without config are represented by the 401 among them
AxiosErrors == [status : ErrorStatus, config : {TRUE}, attempt : {1, 2}]
               \cup [status : {401}, config : {FALSE}, attempt : {1, 2}]

NoError == [status |-> 200, config |-> TRUE, attempt |-> 0]

\* what the caller's promise settles with
Pending == [type |-> "pending", attempt |-> 0, error |-> NoError]
Resolved(n) == [type |-> "response", attempt |-> n, error |-> NoError]
Rejected(e) == [type |-> "error", attempt |-> e.attempt, error |-> e]

\* how raw.post("/api/auth/refresh/") settled: not yet, resolved with
\* r.data.access (undefined when the field is missing), or rejected
NoRefreshResponse == [type |-> "none", access |-> undefined, status |-> 0]
RefreshOk(access) == [type |-> "resolved", access |-> access, status |-> 200]
RefreshFailed(re) == [type |-> "rejected", access |-> undefined, status |-> re.status]

\* kinds of request: Login.submit posts /api/auth/login/, every other caller
\* reads or writes a resource
Kinds == {"data", "login"}

VARIABLES
    localStorage,   \* the text stored under KEY "auth_tokens", or null
    pc,             \* per request: where its flow stands
    kind,           \* per request: "data" or "login"
    cfg,            \* per request: its config object (_retry, Authorization)
    wire,           \* per request: the Authorization header of each send
    refresh,        \* per request: the local `refresh` read at line 72-73
    refreshPosts,   \* per request: raw.post("/api/auth/refresh/") calls made
    refreshResponse,\* per request: how its raw.post settled
    error,          \* per request: the error the interceptor was called with
    result,         \* per request: what the caller's promise settled with
    location        \* the window.location.assign calls, in order

authVars == <<localStorage, pc, kind, cfg, wire, refresh, refreshPosts,
              refreshResponse, error, result, location>>

\* the state of a list view (Assets, Assignments or Tickets)
VARIABLES
    view,               \* which of the three list views is mounted
    mounted,            \* FALSE once the view has unmounted
    acts,               \* events from outside the coordinator so far
    assets,             \* the query data: ids of the loaded assets, <<>> before
    statusFilter,       \* useState "" : the status filter
    focusId,            \* the ?focus= parameter, 0 for null
    paginationModel,    \* useState {page: 0, pageSize: 10}
    highlightId,        \* useState null (0)
    pendingFocusRef,    \* useRef: <<>> for null, else <<{id, targetPage, rowIndexWithinPage}>>
    highlightTimerRef,  \* useRef: 0 for null, else a timer id
    timers,             \* the live window.setTimeout callbacks
    nextTimer,          \* the id the next setTimeout returns
    frames,             \* the pending requestAnimationFrame callbacks (row indexes)
    scrolled,           \* the rowIndex of the last scrollToIndexes call, -1 before
    located             \* the locals idx, pageSize, targetPage, rowIndexWithinPage of the
                        \* last run of the focus effect that got past line 197, else <<>>

focusVars == <<view, mounted, acts, assets, statusFilter, focusId, paginationModel,
               highlightId, pendingFocusRef, highlightTimerRef, timers, nextTimer,
               frames, scrolled, located>>

\* the state of markAllReadMut in the Shell of App.tsx
VARIABLES
    notifications,  \* the query data the running mutationFn closed over
    mutationStatus, \* of the mutation: "idle", "pending", "success", "error"
    bulk,           \* the POST mark-all-read/: "none", "pending", "ok", "failed"
    unread,         \* the local of line 233, <<>> before the catch block runs
    patches,        \* the api.patch calls of line 236, in order: id and outcome
    mutationData    \* what mutationFn returned: "none", "response" or "null"

notifVars == <<notifications, mutationStatus, bulk, unread, patches,
               mutationData>>

\* the state of the edit auto-open of the Tickets view
VARIABLES
    role,           \* what GET /api/me/ answers: "ADMIN" or "EMPLOYEE"
    me,             \* the role in the query data, undefined while loading
    tickets,        \* the ids of the loaded tickets, <<>> while loading
    search,         \* the query string of the router's location
    searchParams,   \* the query string the last render read
    openForm,       \* the dialog is open
    editing,        \* the id of the ticket in the dialog, 0 for null
    openTimer       \* the timer of line 629 while it is pending: <<row>>

editVars == <<role, me, tickets, search, searchParams, openForm, editing,
              openTimer>>

\* the state of markOneReadMut in the Shell of App.tsx
VARIABLES
    queryData,      \* the cached data of the notifications query
    mutations,      \* the calls of markOneReadMut: status, id and ctx.prev
    invalidations   \* the number of invalidateQueries calls of line 221

oneVars == <<queryData, mutations, invalidations>>

vars == <<authVars, focusVars, notifVars, editVars, oneVars>>

AuthInit ==
    /\ localStorage \in {null, tokenStore_set(StaleTokens)}
    /\ pc = [r \in Req |-> "idle"]
    /\ kind = [r \in Req |-> "data"]
    /\ cfg = [r \in Req |-> NewConfig]
    /\ wire = [r \in Req |-> <<>>]
    /\ refresh = [r \in Req |-> undefined]
    /\ refreshPosts = [r \in Req |-> 0]
    /\ refreshResponse = [r \in Req |-> NoRefreshResponse]
    /\ error = [r \in Req |-> NoError]
    /\ result = [r \in Req |-> Pending]
    /\ location = <<>>

\* api.request(config): the request interceptor runs, then the request is
\* put on the wire with the header the interceptor left in the config
dispatch(config, ls) == requestInterceptor(config, ls)

\* A caller issues request r through `api`; the requests are numbered in
\* the order of their issue. Login.submit returns at once while its post is
\* pending (canSubmit, lines 56-58 and 61).
Send(r, k) ==
    /\ pc[r] = "idle"
    /\ UNCHANGED <<focusVars, notifVars, editVars, oneVars>>
    /\ \A q \in Req : q < r => pc[q] # "idle"
    /\ k = "login" => ~\E q \in Req : kind[q] = "login" /\ pc[q] \notin {"idle", "done"}
    /\ LET c == dispatch(NewConfig, localStorage)
       IN  /\ cfg' = [cfg EXCEPT ![r] = c]
           /\ wire' = [wire EXCEPT ![r] = Append(@, c.Authorization)]
    /\ kind' = [kind EXCEPT ![r] = k]
    /\ pc' = [pc EXCEPT ![r] = "sent"]
    /\ UNCHANGED <<localStorage, refresh, refreshPosts, refreshResponse, error,
                   result, location>>

\* which attempt of r is on the wire
Attempt(r) == Len(wire[r])

InFlight(r) == pc[r] \in {"sent", "replayed"}

\* Login.submit after a successful post: tokenStore.set(res.data) and
\* window.location.assign("/")
LoginSuccess(ls, loc, k, data) ==
    IF k = "login"
    THEN <<tokenStore_set(data), Append(loc, "/")>>
    ELSE <<ls, loc>>

\* The caller's promise settles with res: the config object of the request
\* and the locals of the handler are dropped with it. What the network
\* delivered (error, refreshResponse) and the calls made stay on record.
Settle(r, res) ==
    /\ result' = [result EXCEPT ![r] = res]
    /\ pc' = [pc EXCEPT ![r] = "done"]
    /\ cfg' = [cfg EXCEPT ![r] = NewConfig]
    /\ wire' = [wire EXCEPT ![r] = <<>>]
    /\ refresh' = [refresh EXCEPT ![r] = undefined]
    /\ kind' = [kind EXCEPT ![r] = "data"]

\* The backend answers r with a 2xx: (res) => res, the caller gets the
\* response; for a login request the caller stores the returned pair.
Respond2xx(r, data) ==
    /\ InFlight(r)
    /\ UNCHANGED <<focusVars, notifVars, editVars, oneVars>>
    /\ Settle(r, Resolved(Attempt(r)))
    /\ LET after == LoginSuccess(localStorage, location, kind[r], data)
       IN  /\ localStorage' = after[1]
           /\ location' = after[2]
    /\ UNCHANGED <<refreshPosts, refreshResponse, error>>

\* line 69 without the _retry guard
NeedsRefresh_noRetryGuard(e, c) == e.status = 401

\* line 69 without the status test
NeedsRefresh_anyStatus(e, c) == ~c._retry

\* the condition of line 69
NeedsRefresh(e, c) == e.status = 401 /\ ~c._retry

\* the logout path without tokenStore.clear()
ForceLogout_keepTokens(r, e) ==
    /\ localStorage' = localStorage
    /\ location' = Append(location, "/login")
    /\ Settle(r, Rejected(e))

\* lines 91-93: logout path
ForceLogout(r, e) ==
    /\ localStorage' = tokenStore_clear
    /\ location' = Append(location, "/login")
    /\ Settle(r, Rejected(e))

\* the handler drops the stored pair before it awaits the refresh call
IssueRefresh_clearFirst(r) ==
    /\ refreshPosts' = [refreshPosts EXCEPT ![r] = @ + 1]
    /\ pc' = [pc EXCEPT ![r] = "refreshing"]
    /\ localStorage' = tokenStore_clear
    /\ UNCHANGED <<result, location, wire, kind>>

\* the handler waits for a refresh call another request has in flight
\* instead of issuing its own
IssueRefresh_shared(r) ==
    /\ refreshPosts' = [refreshPosts EXCEPT ![r] =
                            IF \E q \in Req : pc[q] = "refreshing" THEN @ ELSE @ + 1]
    /\ pc' = [pc EXCEPT ![r] = "refreshing"]
    /\ UNCHANGED <<localStorage, result, location, wire, kind>>

\* line 78: raw.post is issued and the handler awaits it
IssueRefresh(r) ==
    /\ refreshPosts' = [refreshPosts EXCEPT ![r] = @ + 1]
    /\ pc' = [pc EXCEPT ![r] = "refreshing"]
    /\ UNCHANGED <<localStorage, result, location, wire, kind>>

\* the handler with `return await api.request(cfg)` at line 84: the error
\* of the replay is caught at line 86 and falls through to the logout path
RespondError_replayAwaited(r, e) ==
    /\ InFlight(r)
    /\ UNCHANGED <<focusVars, notifVars, editVars, oneVars>>
    /\ e.attempt = Attempt(r)
    /\ error' = [error EXCEPT ![r] = e]
    /\ IF ~e.config
       THEN \* line 67
            /\ Settle(r, Rejected(e))
            /\ UNCHANGED <<localStorage, refreshPosts, location>>
       ELSE IF NeedsRefresh(e, cfg[r])
       THEN \* lines 70-93, up to the await of line 78
            LET tokens == tokenStore_get(localStorage)
                rt == tokens.refresh
            IN  IF rt # undefined
                THEN /\ cfg' = [cfg EXCEPT ![r]._retry = TRUE]
                     /\ refresh' = [refresh EXCEPT ![r] = rt]
                     /\ IssueRefresh(r)
                ELSE /\ ForceLogout(r, e)
                     /\ UNCHANGED refreshPosts
       ELSE IF cfg[r]._retry
       THEN /\ ForceLogout(r, error[r])
            /\ UNCHANGED refreshPosts
       ELSE /\ Settle(r, Rejected(e))
            /\ UNCHANGED <<localStorage, refreshPosts, location>>
    /\ UNCHANGED refreshResponse

\* the handler passing the errors of the login endpoint through
RespondError_skipsLogin(r, e) ==
    /\ InFlight(r)
    /\ UNCHANGED <<focusVars, notifVars, editVars, oneVars>>
    /\ e.attempt = Attempt(r)
    /\ error' = [error EXCEPT ![r] = e]
    /\ IF ~e.config
       THEN \* line 67
            /\ Settle(r, Rejected(e))
            /\ UNCHANGED <<localStorage, refreshPosts, location>>
       ELSE IF NeedsRefresh(e, cfg[r]) /\ kind[r] # "login"
       THEN \* lines 70-93, up to the await of line 78
            LET tokens == tokenStore_get(localStorage)
                rt == tokens.refresh
            IN  IF rt # undefined
                THEN /\ cfg' = [cfg EXCEPT ![r]._retry = TRUE]
                     /\ refresh' = [refresh EXCEPT ![r] = rt]
                     /\ IssueRefresh(r)
                ELSE /\ ForceLogout(r, e)
                     /\ UNCHANGED refreshPosts
       ELSE \* line 96
            /\ Settle(r, Rejected(e))
            /\ UNCHANGED <<localStorage, refreshPosts, location>>
    /\ UNCHANGED refreshResponse

\* The backend answers r with an error: the rejected handler of the
\* response interceptor, up to its first await or its return.
RespondError(r, e) ==
    /\ InFlight(r)
    /\ UNCHANGED <<focusVars, notifVars, editVars, oneVars>>
    /\ e.attempt = Attempt(r)
    /\ error' = [error EXCEPT ![r] = e]
    /\ IF ~e.config
       THEN \* line 67
            /\ Settle(r, Rejected(e))
            /\ UNCHANGED <<localStorage, refreshPosts, location>>
       ELSE IF NeedsRefresh(e, cfg[r])
       THEN \* lines 70-93, up to the await of line 78
            LET tokens == tokenStore_get(localStorage)
                rt == tokens.refresh
            IN  IF rt # undefined
                THEN /\ cfg' = [cfg EXCEPT ![r]._retry = TRUE]
                     /\ refresh' = [refresh EXCEPT ![r] = rt]
                     /\ IssueRefresh(r)
                ELSE /\ ForceLogout(r, e)
                     /\ UNCHANGED refreshPosts
       ELSE \* line 96
            /\ Settle(r, Rejected(e))
            /\ UNCHANGED <<localStorage, refreshPosts, location>>
    /\ UNCHANGED refreshResponse

\* the pair stored with the refresh token taken from the refresh response,
\* which carries none
refreshedTokens_fromResponse(newAccess, oldRefresh) ==
    [access |-> newAccess, refresh |-> undefined]

\* line 82: the argument of tokenStore.set
refreshedTokens(newAccess, oldRefresh) ==
    [access |-> newAccess, refresh |-> oldRefresh]

\* what the refresh endpoint can put in r.data.access: a token, or nothing
RefreshData == AccessTokens \cup {undefined}

\* raw.post resolves and the handler goes on without the test of line 81
RefreshResolved_noAccessTest(r, newAccess) ==
    /\ pc[r] = "refreshing"
    /\ UNCHANGED <<focusVars, notifVars, editVars, oneVars>>
    /\ LET ls == tokenStore_set(refreshedTokens(newAccess, refresh[r]))
           c == dispatch(setAuthHeader(cfg[r], newAccess), ls)
       IN  /\ localStorage' = ls
           /\ cfg' = [cfg EXCEPT ![r] = c]
           /\ wire' = [wire EXCEPT ![r] = Append(@, c.Authorization)]
           /\ pc' = [pc EXCEPT ![r] = "replayed"]
           /\ UNCHANGED <<result, location, kind, refresh>>
    /\ refreshResponse' = [refreshResponse EXCEPT ![r] = RefreshOk(newAccess)]
    /\ UNCHANGED <<refreshPosts, error>>

\* raw.post resolves: lines 79-85 when r.data.access is set, otherwise the
\* fall through to lines 91-93.
RefreshResolved(r, newAccess) ==
    /\ pc[r] = "refreshing"
    /\ UNCHANGED <<focusVars, notifVars, editVars, oneVars>>
    /\ IF newAccess # undefined
       THEN LET ls == tokenStore_set(refreshedTokens(newAccess, refresh[r]))
                c == dispatch(setAuthHeader(cfg[r], newAccess), ls)
            IN  /\ localStorage' = ls
                /\ cfg' = [cfg EXCEPT ![r] = c]
                /\ wire' = [wire EXCEPT ![r] = Append(@, c.Authorization)]
                /\ pc' = [pc EXCEPT ![r] = "replayed"]
                /\ UNCHANGED <<result, location, kind, refresh>>
       ELSE ForceLogout(r, error[r])
    /\ refreshResponse' = [refreshResponse EXCEPT ![r] = RefreshOk(newAccess)]
    /\ UNCHANGED <<refreshPosts, error>>

\* the errors raw.post can reject with: attempt 0 marks the refresh call
RefreshErrors == [status : {401, 0}, config : {TRUE}, attempt : {0}]

\* the refresh call made through `api`: its 401 enters the response
\* interceptor with the fresh config of the refresh request, which posts
\* another refresh
RefreshRejected_viaApi(r, re) ==
    /\ pc[r] = "refreshing"
    /\ UNCHANGED <<focusVars, notifVars, editVars, oneVars>>
    /\ IF re.status = 401 /\ tokenStore_get(localStorage).refresh # undefined
       THEN /\ refreshPosts' = [refreshPosts EXCEPT ![r] = @ + 1]
            /\ UNCHANGED <<localStorage, result, location, pc, refreshResponse,
                           kind, cfg, wire, refresh>>
       ELSE /\ ForceLogout(r, error[r])
            /\ refreshResponse' = [refreshResponse EXCEPT ![r] = RefreshFailed(re)]
            /\ UNCHANGED refreshPosts
    /\ UNCHANGED error

\* raw.post rejects with re (`raw` has no interceptor, so a 401 is an
\* ordinary rejection): the catch of line 86 drops re, then lines 91-93.
RefreshRejected(r, re) ==
    /\ pc[r] = "refreshing"
    /\ UNCHANGED <<focusVars, notifVars, editVars, oneVars>>
    /\ ForceLogout(r, error[r])
    /\ refreshResponse' = [refreshResponse EXCEPT ![r] = RefreshFailed(re)]
    /\ UNCHANGED <<refreshPosts, error>>

\* the backend answers request r
Respond(r) ==
    \/ \E data \in Tokens : Respond2xx(r, data)
    \/ \E e \in AxiosErrors : RespondError(r, e)

\* the refresh call of request r settles
RefreshSettles(r) ==
    \/ \E a \in RefreshData : RefreshResolved(r, a)
    \/ \E re \in RefreshErrors : RefreshRejected(r, re)

\* App.tsx logout: tokenStore.clear() followed by an in-app navigation,
\* which leaves the requests in flight running
logout ==
    /\ localStorage # null
    /\ UNCHANGED <<focusVars, notifVars, editVars, oneVars>>
    /\ localStorage' = tokenStore_clear
    /\ UNCHANGED <<pc, kind, cfg, wire, refresh, refreshPosts, refreshResponse,
                   error, result, location>>

(***************************************************************************)
(* pages/Assets.tsx, pages/Assignments.tsx, pages/Tickets.tsx: the focus   *)
(* effect, the page-observer effect and the callbacks they schedule.       *)
(* Line numbers are those of Assets.tsx.                                   *)
(***************************************************************************)
\* largest number of assets the backend returns
MaxRows == 25
\* number of setTimeout calls followed in one run
MaxTimers == 7
\* number of events from outside the coordinator followed in one run
MaxActs == 2
\* largest number of notifications in the list
MaxNotifications == 3
\* number of markOneReadMut calls followed in one run
MaxMutations == 2

\* the row counts of the lists the backend returns
RowCounts == {12, MaxRows}

\* the asset ids of a list of n rows, newest first
AssetList(n) == [i \in 1..n |-> n + 1 - i]

\* the status column of the asset with this id
StatusOf(id) == IF id % 3 = 0 THEN "ASSIGNED" ELSE "AVAILABLE"

StatusFilters == {"", "AVAILABLE"}

\* values of ?focus= that are followed: 0 stands for null (no parameter);
\* id 2 is at index 10 of a list of 12, id 8 at index 17 of a list of 25;
\* id 15 is on the second page of the long list, has the status the filter
\* removes and is not in the short list; MaxRows is the first row of the
\* long list and MaxRows + 1 the id of no asset
FocusIds == {0, 2, 8, 15, MaxRows, MaxRows + 1}

\* pageSizeOptions of the DataGrid, line 390
pageSizeOptions == {10, 25, 50}

\* the predicate of lines 175-184 (the search box is left empty)
keep(id, status) == ~(status # "" /\ StatusOf(id) # status)

\* Array.prototype.filter with that predicate
filter(all, status) == SelectSeq(all, LAMBDA id : keep(id, status))

\* Array.prototype.findIndex((r) => r.id === id): 0-based, -1 when absent
findIndex(rows, id) ==
    IF \E i \in 1..Len(rows) : rows[i] = id
    THEN (CHOOSE i \in 1..Len(rows) : rows[i] = id /\ \A j \in 1..(i - 1) : rows[j] # id) - 1
    ELSE -1

\* Math.round(a / b) for a >= 0, b > 0
Math_round_div(a, b) == (2 * a + b) \div (2 * b)

\* Math.floor(a / b) for a >= 0, b > 0
Math_floor_div(a, b) == a \div b

\* paginationModel.pageSize || 10, line 199
effectivePageSize(pm) == IF pm.pageSize = 0 THEN 10 ELSE pm.pageSize

\* line 200
targetPageOf(idx, pageSize) == Math_floor_div(idx, pageSize)

\* line 201
rowIndexWithinPageOf(idx, pageSize) == idx - targetPageOf(idx, pageSize) * pageSize

\* useMemo of lines 173-186
filteredRows == filter(assets, statusFilter)

\* the three list views: pages/Assets.tsx, pages/Assignments.tsx and
\* pages/Tickets.tsx share the focus effect line for line
Views == {"Assets", "Assignments", "Tickets"}

\* filteredRows is a useMemo in Assets (line 174); in Assignments and Tickets
\* it is computed in the render body, a new array on every render
memoised(v) == v = "Assets"

\* Assets and Assignments have the page-observer effect, Tickets has none
hasPageObserver(v) == v # "Tickets"

\* the 0-delay callbacks the two effects schedule, and the expiry callback;
\* pageSize is the local of line 199 the page-change closure was created with
Timer(id, fn, targetPage, pageSize) ==
    [id |-> id, fn |-> fn, targetPage |-> targetPage, pageSize |-> pageSize]

\* the focus effect without the return of line 197
focusEffect_noMissGuard(fid, rows, pm, pending) ==
    LET idx == findIndex(rows, fid)
        pageSize == effectivePageSize(pm)
        targetPage == targetPageOf(idx, pageSize)
        rowIndexWithinPage == rowIndexWithinPageOf(idx, pageSize)
        none == [pending |-> pending, schedule |-> <<>>, locals |-> <<>>]
    IN  IF fid = 0 THEN none
        ELSE IF Len(rows) = 0 THEN none
        ELSE [pending |-> <<[id |-> fid, targetPage |-> targetPage,
                             rowIndexWithinPage |-> rowIndexWithinPage]>>,
              schedule |-> IF pm.page # targetPage
                           THEN <<[fn |-> "setPage", targetPage |-> targetPage,
                                   pageSize |-> pageSize]>>
                           ELSE <<[fn |-> "armFocus", targetPage |-> targetPage,
                                   pageSize |-> pageSize]>>,
              locals |-> <<>>]

\* The focus effect, lines 192-227, run with the values of one render: the
\* new pendingFocusRef, the callback it schedules (<<>> for none) and its
\* locals.
focusEffect(fid, rows, pm, pending) ==
    LET idx == findIndex(rows, fid)
        pageSize == effectivePageSize(pm)
        targetPage == targetPageOf(idx, pageSize)
        rowIndexWithinPage == rowIndexWithinPageOf(idx, pageSize)
        none == [pending |-> pending, schedule |-> <<>>, locals |-> <<>>]
    IN  IF fid = 0 THEN none
        ELSE IF Len(rows) = 0 THEN none
        ELSE IF idx = -1 THEN none
        ELSE [pending |-> <<[id |-> fid, targetPage |-> targetPage,
                             rowIndexWithinPage |-> rowIndexWithinPage]>>,
              schedule |-> IF pm.page # targetPage
                           THEN <<[fn |-> "setPage", targetPage |-> targetPage,
                                   pageSize |-> pageSize]>>
                           ELSE <<[fn |-> "armFocus", targetPage |-> targetPage,
                                   pageSize |-> pageSize]>>,
              locals |-> <<[idx |-> idx, pageSize |-> pageSize, targetPage |-> targetPage,
                            rowIndexWithinPage |-> rowIndexWithinPage]>>]

\* The page-observer effect, lines 229-249: the callback it schedules.
pageObserverEffect(pm, pending) ==
    IF pending = <<>> THEN <<>>
    ELSE IF pending[1].targetPage # pm.page THEN <<>>
    ELSE <<[fn |-> "armObserver", targetPage |-> pm.page, pageSize |-> 0]>>

\* window.setTimeout of each scheduled callback, in order
RECURSIVE setTimeouts(_, _)
setTimeouts(schedule, next) ==
    IF schedule = <<>> THEN {}
    ELSE {Timer(next, Head(schedule).fn, Head(schedule).targetPage, Head(schedule).pageSize)}
         \cup setTimeouts(Tail(schedule), next + 1)

\* A render commits with the new values of the state; the effects whose
\* dependencies changed run in the order of their declaration. runFocus
\* and runObserver say whether focusId, filteredRows, page or pageSize,
\* respectively page, changed; where filteredRows is not memoised the focus
\* effect runs after every render. live is the set of callbacks still
\* waiting, pending and next the values of pendingFocusRef.current and of
\* the timer counter when the render commits.
CommitFrom(fid, rows, pm, runFocus, runObserver, live, pending, next) ==
    LET ranFocus == runFocus \/ ~memoised(view)
        fe == IF ranFocus THEN focusEffect(fid, rows, pm, pending)
              ELSE [pending |-> pending, schedule |-> <<>>, locals |-> located]
        oe == IF runObserver /\ hasPageObserver(view)
              THEN pageObserverEffect(pm, fe.pending) ELSE <<>>
        schedule == fe.schedule \o oe
    IN  /\ next + Len(schedule) <= MaxTimers + 1
        /\ pendingFocusRef' = fe.pending
        /\ located' = IF ranFocus THEN fe.locals ELSE located
        /\ timers' = live \cup setTimeouts(schedule, next)
        /\ nextTimer' = next + Len(schedule)

\* a render caused by an event handler or a query result
Commit(fid, rows, pm, runFocus, runObserver, live) ==
    CommitFrom(fid, rows, pm, runFocus, runObserver, live, pendingFocusRef, nextTimer)

FocusInit ==
    /\ view \in Views
    /\ mounted = TRUE
    /\ acts = 0
    /\ assets = <<>>
    /\ statusFilter = ""
    /\ focusId \in FocusIds
    /\ paginationModel = [page |-> 0, pageSize |-> 10]
    /\ highlightId = 0
    /\ pendingFocusRef = <<>>
    /\ highlightTimerRef = 0
    /\ timers = {}
    /\ nextTimer = 1
    /\ frames = <<>>
    /\ scrolled = -1
    /\ located = <<>>

\* an event from outside the coordinator: a query result, a click, a key
Act ==
    /\ mounted
    /\ acts < MaxActs
    /\ acts' = acts + 1

\* The assets query delivers a list of n rows.
LoadAssets(n) ==
    /\ Act
    /\ UNCHANGED <<authVars, notifVars, editVars, oneVars>>
    /\ assets # AssetList(n)
    /\ assets' = AssetList(n)
    /\ Commit(focusId, filter(AssetList(n), statusFilter), paginationModel, TRUE, FALSE, timers)
    /\ UNCHANGED <<view, mounted, statusFilter, focusId, paginationModel, highlightId,
                   highlightTimerRef, frames, scrolled>>

\* The user picks a status filter, line 357.
SetStatusFilter(f) ==
    /\ Act
    /\ UNCHANGED <<authVars, notifVars, editVars, oneVars>>
    /\ f # statusFilter
    /\ statusFilter' = f
    /\ Commit(focusId, filter(assets, f), paginationModel, TRUE, FALSE, timers)
    /\ UNCHANGED <<view, mounted, assets, focusId, paginationModel, highlightId,
                   highlightTimerRef, frames, scrolled>>

\* the last page of a list of n rows
LastPage(n, pageSize) == IF n = 0 THEN 0 ELSE (n - 1) \div pageSize

\* The user turns the page or picks a page size: onPaginationModelChange.
PaginationModelChange(pm) ==
    /\ Act
    /\ UNCHANGED <<authVars, notifVars, editVars, oneVars>>
    /\ pm # paginationModel
    /\ pm.page <= LastPage(Len(filteredRows), pm.pageSize)
    /\ paginationModel' = pm
    /\ Commit(focusId, filteredRows, pm,
              TRUE, pm.page # paginationModel.page, timers)
    /\ UNCHANGED <<view, mounted, assets, statusFilter, focusId, highlightId,
                   highlightTimerRef, frames, scrolled>>

\* A state update that touches none of the coordinator's inputs, such as
\* setOpenForm (line 88): the view renders again.
Rerender ==
    /\ Act
    /\ UNCHANGED <<authVars, notifVars, editVars, oneVars>>
    /\ Commit(focusId, filteredRows, paginationModel, FALSE, FALSE, timers)
    /\ UNCHANGED <<view, mounted, assets, statusFilter, focusId, paginationModel,
                   highlightId, highlightTimerRef, frames, scrolled>>

\* The view unmounts: the cleanup of lines 251-255 clears the timer that
\* highlightTimerRef names and nothing else.
Unmount ==
    /\ mounted
    /\ UNCHANGED <<authVars, notifVars, editVars, oneVars>>
    /\ mounted' = FALSE
    /\ timers' = IF highlightTimerRef # 0
                 THEN {u \in timers : u.id # highlightTimerRef}
                 ELSE timers
    /\ UNCHANGED <<view, acts, assets, statusFilter, focusId, paginationModel,
                   highlightId, pendingFocusRef, highlightTimerRef, nextTimer,
                   frames, scrolled, located>>

\* a 0-delay callback runs after the 0-delay callbacks scheduled before it;
\* the expiry callback runs 4500 ms after it was scheduled, when the 0-delay
\* callbacks and the animation frames have long run
Due(t) ==
    IF t.fn = "expire"
    THEN frames = <<>> /\ ~\E u \in timers : u.fn # "expire"
    ELSE ~\E u \in timers : u.fn # "expire" /\ u.id < t.id

\* the page-change callback with the branches of the updater of line 207
\* swapped: p.page === targetPage ? { ...p, page: targetPage } : p
FireSetPage_swapped(t) ==
    /\ t \in timers /\ t.fn = "setPage" /\ Due(t)
    /\ UNCHANGED <<authVars, notifVars, editVars, oneVars>>
    /\ timers' = timers \ {t}
    /\ UNCHANGED <<view, mounted, acts, assets, statusFilter, focusId, paginationModel,
                   highlightId, pendingFocusRef, highlightTimerRef, nextTimer, frames,
                   scrolled, located>>

\* lines 206-208: the page-change callback; a state setter called after the
\* unmount changes nothing
FireSetPage(t) ==
    /\ t \in timers /\ t.fn = "setPage" /\ Due(t)
    /\ UNCHANGED <<authVars, notifVars, editVars, oneVars>>
    /\ LET pm == IF paginationModel.page = t.targetPage \/ ~mounted THEN paginationModel
                 ELSE [paginationModel EXCEPT !.page = t.targetPage]
       IN  /\ paginationModel' = pm
           /\ IF pm # paginationModel
              THEN Commit(focusId, filteredRows, pm, TRUE, TRUE, timers \ {t})
              ELSE /\ timers' = timers \ {t}
                   /\ UNCHANGED <<pendingFocusRef, located, nextTimer>>
    /\ UNCHANGED <<view, mounted, acts, assets, statusFilter, focusId, highlightId,
                   highlightTimerRef, frames, scrolled>>

\* the arming callback without lines 220-221
clearHighlightTimer_never(live, ref) == live

\* lines 220-221: clearTimeout of the timer the ref names
clearHighlightTimer(live, ref) ==
    IF ref # 0 THEN {u \in live : u.id # ref} ELSE live

\* lines 212-226 and 234-248: the arming callback of either effect, and the
\* render that follows when setHighlightId changed the state
FireArm(t) ==
    /\ t \in timers /\ t.fn \in {"armFocus", "armObserver"} /\ Due(t)
    /\ UNCHANGED <<authVars, notifVars, editVars, oneVars>>
    /\ IF pendingFocusRef = <<>>
       THEN /\ timers' = timers \ {t}
            /\ UNCHANGED <<highlightId, highlightTimerRef, nextTimer, frames,
                           pendingFocusRef, located>>
       ELSE LET live == clearHighlightTimer(timers \ {t}, highlightTimerRef)
                           \cup {Timer(nextTimer, "expire", 0, 0)}
                id == IF mounted THEN pendingFocusRef[1].id ELSE highlightId
            IN  /\ nextTimer <= MaxTimers
                /\ frames' = Append(frames, pendingFocusRef[1].rowIndexWithinPage)
                /\ highlightId' = id
                /\ highlightTimerRef' = nextTimer
                /\ IF id # highlightId
                   THEN CommitFrom(focusId, filteredRows, paginationModel, FALSE, FALSE,
                                   live, <<>>, nextTimer + 1)
                   ELSE /\ timers' = live
                        /\ nextTimer' = nextTimer + 1
                        /\ pendingFocusRef' = <<>>
                        /\ UNCHANGED located
    /\ UNCHANGED <<view, mounted, acts, assets, statusFilter, focusId, paginationModel,
                   scrolled>>

\* line 223 / 245: () => setHighlightId(null), and the render that follows
\* when a row was highlighted
FireExpire(t) ==
    /\ t \in timers /\ t.fn = "expire" /\ Due(t)
    /\ UNCHANGED <<authVars, notifVars, editVars, oneVars>>
    /\ highlightId' = IF mounted THEN 0 ELSE highlightId
    /\ IF highlightId' # highlightId
       THEN Commit(focusId, filteredRows, paginationModel, FALSE, FALSE, timers \ {t})
       ELSE /\ timers' = timers \ {t}
            /\ UNCHANGED <<pendingFocusRef, located, nextTimer>>
    /\ UNCHANGED <<view, mounted, acts, assets, statusFilter, focusId, paginationModel,
                   highlightTimerRef, frames, scrolled>>

\* lines 216-218 / 238-240: the animation frame scrolls the grid;
\* apiRef.current?. does nothing once the grid is gone
Frame ==
    /\ frames # <<>>
    /\ UNCHANGED <<authVars, notifVars, editVars, oneVars>>
    /\ scrolled' = IF mounted THEN Head(frames) ELSE scrolled
    /\ frames' = Tail(frames)
    /\ UNCHANGED <<view, mounted, acts, assets, statusFilter, focusId, paginationModel,
                   highlightId, pendingFocusRef, highlightTimerRef, timers, nextTimer,
                   located>>

FocusNext ==
    \/ \E n \in RowCounts : LoadAssets(n)
    \/ \E f \in StatusFilters : SetStatusFilter(f)
    \/ \E p \in 0..LastPage(MaxRows, 10), s \in pageSizeOptions :
          PaginationModelChange([page |-> p, pageSize |-> s])
    \/ Rerender
    \/ Unmount
    \/ \E t \in timers : FireSetPage(t)
    \/ \E t \in timers : FireArm(t)
    \/ \E t \in timers : FireExpire(t)
    \/ Frame

\* arrival at the page with ?focus= in the URL and no interaction after it:
\* the list loads once and the callbacks run
ArrivalNext ==
    \/ \E n \in RowCounts : assets = <<>> /\ LoadAssets(n)
    \/ \E t \in timers : FireSetPage(t)
    \/ \E t \in timers : FireArm(t)
    \/ \E t \in timers : FireExpire(t)
    \/ Frame

(***************************************************************************)
(* App.tsx: markAllReadMut, the bulk mark-read with its per-item fallback. *)
(* api.post and api.patch settle as the interceptors of client.ts decide:  *)
(* resolved, or rejected with the error the caller sees.                   *)
(***************************************************************************)
\* a field the backend did not send, and the two booleans as it sends them
absent == "absent"
true == "true"
false == "false"

\* typeof v === "boolean"
isBoolean(v) == v \in {true, false}

\* NotificationItem as isRead sees it: read_at set or not, is_read and read
\* a boolean or missing
ItemShapes ==
    { [read_at |-> TRUE,  is_read |-> false,  read |-> absent],
      [read_at |-> FALSE, is_read |-> true,   read |-> false],
      [read_at |-> FALSE, is_read |-> false,  read |-> true],
      [read_at |-> FALSE, is_read |-> absent, read |-> true],
      [read_at |-> FALSE, is_read |-> absent, read |-> false],
      [read_at |-> FALSE, is_read |-> absent, read |-> absent] }

\* the item with this id and these fields
Item(id, shape) ==
    [id |-> id, read_at |-> shape.read_at, is_read |-> shape.is_read, read |-> shape.read]

\* the lists the notifications query delivers: ids 1..n
NotificationLists ==
    UNION { {[i \in 1..n |-> Item(i, f[i])] : f \in [1..n -> ItemShapes]}
            : n \in 0..MaxNotifications }

\* lines 108-114
isRead(n) ==
    IF n.read_at THEN TRUE
    ELSE IF isBoolean(n.is_read) THEN n.is_read = true
    ELSE IF isBoolean(n.read) THEN n.read = true
    ELSE FALSE

\* line 233: list.filter((n) => !isRead(n))
unreadOf(list) == SelectSeq(list, LAMBDA n : ~isRead(n))

\* line 190
unreadCount == Len(unreadOf(notifications))

NotifInit ==
    /\ notifications \in NotificationLists
    /\ mutationStatus = "idle"
    /\ bulk = "none"
    /\ unread = <<>>
    /\ patches = <<>>
    /\ mutationData = "none"

\* one api.patch call of line 236
Patch(n, outcome) == [id |-> n.id, outcome |-> outcome]

\* markAllReadMut.mutate(), line 624; the button is disabled while the
\* mutation is pending and while nothing is unread (line 625). mutationFn
\* starts and awaits the bulk POST of line 229.
mutate ==
    /\ mutationStatus # "pending"
    /\ UNCHANGED <<authVars, focusVars, editVars, oneVars>>
    /\ unreadCount # 0
    /\ mutationStatus' = "pending"
    /\ bulk' = "pending"
    /\ unread' = <<>>
    /\ patches' = <<>>
    /\ mutationData' = "none"
    /\ UNCHANGED notifications

\* the bulk POST resolves: return await api.post(...)
BulkResolved ==
    /\ bulk = "pending"
    /\ UNCHANGED <<authVars, focusVars, editVars, oneVars>>
    /\ bulk' = "ok"
    /\ mutationData' = "response"
    /\ mutationStatus' = "success"
    /\ UNCHANGED <<notifications, unread, patches>>

\* the bulk POST rejects: the catch block of lines 230-242 computes unread
\* and starts the loop; with nothing unread it returns null at once
BulkRejected ==
    /\ bulk = "pending"
    /\ UNCHANGED <<authVars, focusVars, editVars, oneVars>>
    /\ bulk' = "failed"
    /\ LET u == unreadOf(notifications)
       IN  /\ unread' = u
           /\ IF u = <<>>
              THEN /\ mutationData' = "null"
                   /\ mutationStatus' = "success"
                   /\ UNCHANGED patches
              ELSE /\ patches' = <<Patch(u[1], "pending")>>
                   /\ UNCHANGED <<mutationData, mutationStatus>>
    /\ UNCHANGED notifications

\* the loop of lines 234-240 without the inner try: a rejected PATCH leaves
\* the loop and rejects the mutation
PatchSettled_noInnerTry(ok) ==
    /\ patches # <<>> /\ patches[Len(patches)].outcome = "pending"
    /\ UNCHANGED <<authVars, focusVars, editVars, oneVars>>
    /\ LET k == Len(patches)
           done == [patches EXCEPT ![k].outcome = IF ok THEN "ok" ELSE "failed"]
       IN  IF ~ok
           THEN /\ patches' = done
                /\ mutationStatus' = "error"
                /\ UNCHANGED mutationData
           ELSE IF k < Len(unread)
           THEN /\ patches' = Append(done, Patch(unread[k + 1], "pending"))
                /\ UNCHANGED <<mutationData, mutationStatus>>
           ELSE /\ patches' = done
                /\ mutationData' = "null"
                /\ mutationStatus' = "success"
    /\ UNCHANGED <<notifications, bulk, unread>>

\* the PATCH in flight settles, lines 235-239: a rejection is swallowed; the
\* loop goes on to the next unread item or ends and mutationFn returns null
PatchSettled(ok) ==
    /\ patches # <<>> /\ patches[Len(patches)].outcome = "pending"
    /\ UNCHANGED <<authVars, focusVars, editVars, oneVars>>
    /\ LET k == Len(patches)
           done == [patches EXCEPT ![k].outcome = IF ok THEN "ok" ELSE "failed"]
       IN  IF k < Len(unread)
           THEN /\ patches' = Append(done, Patch(unread[k + 1], "pending"))
                /\ UNCHANGED <<mutationData, mutationStatus>>
           ELSE /\ patches' = done
                /\ mutationData' = "null"
                /\ mutationStatus' = "success"
    /\ UNCHANGED <<notifications, bulk, unread>>

NotifNext ==
    \/ mutate
    \/ BulkResolved
    \/ BulkRejected
    \/ \E ok \in BOOLEAN : PatchSettled(ok)

(***************************************************************************)
(* Part 4: the edit auto-open of the Tickets view (Login.tsx 621-642).     *)
(* A query string is the record of its edit and focus parameters, 0 for a  *)
(* parameter that is not there.                                            *)
(***************************************************************************)
Roles == {"ADMIN", "EMPLOYEE"}
EditIds == {0, 2, 9}
TicketFocusIds == {0, 3}
TicketLists == {<<3, 2, 1>>, <<4, 3, 1>>, <<9, 2>>}
QueryStrings == [edit : EditIds, focus : TicketFocusIds]

\* lines 394-398: Number of the parameter, null when it is not there
editIdOf(sp) == sp.edit

\* line 405
isAdmin == me = "ADMIN"

\* params.delete("edit") of lines 633-634: the other parameters are copied
deleteEdit(sp) == [sp EXCEPT !.edit = 0]

\* one run of the effect of lines 622-642 on what the render read: the row
\* whose opening it schedules and the query string it navigates to, or
\* nothing when it returns early
editEffect_noAdminCheck(admin, sp, list) ==
    IF editIdOf(sp) = 0 \/ list = <<>> \/ findIndex(list, editIdOf(sp)) = -1
    THEN [schedule |-> <<>>, navigate |-> <<>>]
    ELSE [schedule |-> <<editIdOf(sp)>>, navigate |-> <<deleteEdit(sp)>>]

editEffect(admin, sp, list) ==
    IF ~admin                                  THEN [schedule |-> <<>>, navigate |-> <<>>]
    ELSE IF editIdOf(sp) = 0                   THEN [schedule |-> <<>>, navigate |-> <<>>]
    ELSE IF list = <<>>                        THEN [schedule |-> <<>>, navigate |-> <<>>]
    ELSE IF findIndex(list, editIdOf(sp)) = -1 THEN [schedule |-> <<>>, navigate |-> <<>>]
    ELSE [schedule |-> <<editIdOf(sp)>>, navigate |-> <<deleteEdit(sp)>>]

\* a commit in which a dependency of the effect has changed: the cleanup of
\* the run before (line 641) clears its timer, then the effect runs
EditCommit(admin, sp, list) ==
    LET e == editEffect(admin, sp, list)
    IN  /\ openTimer' = e.schedule
        /\ search' = IF e.navigate = <<>> THEN search ELSE e.navigate[1]

EditInit ==
    /\ role \in Roles
    /\ me = undefined
    /\ tickets = <<>>
    /\ search \in QueryStrings
    /\ searchParams = search
    /\ openForm = FALSE
    /\ editing = 0
    /\ openTimer = <<>>

\* the me query of lines 400-403 resolves
MeLoaded ==
    /\ me = undefined
    /\ me' = role
    /\ IF role = "ADMIN"
       THEN EditCommit(TRUE, searchParams, tickets)
       ELSE UNCHANGED <<openTimer, search>>
    /\ UNCHANGED <<role, tickets, searchParams, openForm, editing>>
    /\ UNCHANGED <<authVars, focusVars, notifVars, oneVars>>

\* the tickets query of lines 468-486 resolves
TicketsLoaded(list) ==
    /\ tickets = <<>>
    /\ tickets' = list
    /\ EditCommit(isAdmin, searchParams, list)
    /\ UNCHANGED <<role, me, searchParams, openForm, editing>>
    /\ UNCHANGED <<authVars, focusVars, notifVars, oneVars>>

\* the tickets query is fetched again (line 536 and the like invalidate it)
\* and hands the component a new array
TicketsRefetched(list) ==
    /\ tickets # <<>>
    /\ tickets' = list
    /\ EditCommit(isAdmin, searchParams, list)
    /\ UNCHANGED <<role, me, searchParams, openForm, editing>>
    /\ UNCHANGED <<authVars, focusVars, notifVars, oneVars>>

\* the render that follows navigate(..., {replace: true}) of lines 635-638
RenderLocation ==
    /\ searchParams # search
    /\ searchParams' = search
    /\ EditCommit(isAdmin, search, tickets)
    /\ UNCHANGED <<role, me, tickets, openForm, editing>>
    /\ UNCHANGED <<authVars, focusVars, notifVars, oneVars>>

\* the callback of lines 629-631 runs openEdit(row) of lines 599-608
FireOpenEdit ==
    /\ openTimer # <<>>
    /\ editing' = openTimer[1]
    /\ openForm' = TRUE
    /\ openTimer' = <<>>
    /\ UNCHANGED <<role, me, tickets, search, searchParams>>
    /\ UNCHANGED <<authVars, focusVars, notifVars, oneVars>>

EditNext ==
    \/ MeLoaded
    \/ \E list \in TicketLists : TicketsLoaded(list)
    \/ \E list \in TicketLists : TicketsRefetched(list)
    \/ RenderLocation
    \/ FireOpenEdit

(***************************************************************************)
(* Part 5: markOneReadMut (App.tsx 192-223), with the query cache it       *)
(* updates. Several calls can be pending at once: nothing disables a       *)
(* notification while the PATCH of another is in flight.                   *)
(***************************************************************************)
Mutations == 1..MaxMutations

\* the lists the cache holds when the menu is used
CachedLists == {l \in NotificationLists : Len(l) \in 1..2}

NoMutation == [status |-> "idle", id |-> 0, prev |-> <<>>]

\* lines 203-208: the item as the optimistic update leaves it
markedRead(n) == [n EXCEPT !.is_read = true, !.read = true, !.read_at = TRUE]

\* lines 200-210: old.map(...)
optimistic(old, id) ==
    [i \in 1..Len(old) |-> IF old[i].id = id THEN markedRead(old[i]) ELSE old[i]]

OneInit ==
    /\ queryData \in CachedLists
    /\ mutations = [m \in Mutations |-> NoMutation]
    /\ invalidations = 0

\* markOneReadMut.mutateAsync(n.id), line 702: onMutate (lines 196-213)
\* takes the snapshot and writes the optimistic list, then mutationFn
\* issues the PATCH of line 194
mutateOne(m, id) ==
    /\ mutations[m].status = "idle"
    /\ \A k \in Mutations : k < m => mutations[k].status # "idle"
    /\ \E i \in 1..Len(queryData) : queryData[i].id = id
    /\ mutations' = [mutations EXCEPT ![m] =
                         [status |-> "pending", id |-> id, prev |-> queryData]]
    /\ queryData' = optimistic(queryData, id)
    /\ UNCHANGED invalidations
    /\ UNCHANGED <<authVars, focusVars, notifVars, editVars>>

\* onError, lines 215-217: ctx.prev is an array, so the test passes
onError(data, prev) == prev

\* the PATCH of call m settles: onError when it was rejected, then
\* onSettled (lines 219-221) in both cases
PatchOneSettled(m, ok) ==
    /\ mutations[m].status = "pending"
    /\ mutations' = [mutations EXCEPT ![m].status = IF ok THEN "success" ELSE "error"]
    /\ queryData' = IF ok THEN queryData ELSE onError(queryData, mutations[m].prev)
    /\ invalidations' = invalidations + 1
    /\ UNCHANGED <<authVars, focusVars, notifVars, editVars>>

OneNext ==
    \/ \E m \in Mutations, id \in 1..2 : mutateOne(m, id)
    \/ \E m \in Mutations, ok \in BOOLEAN : PatchOneSettled(m, ok)

AuthNext ==
    \/ \E r \in Req, k \in Kinds : Send(r, k)
    \/ \E r \in Req, data \in Tokens : Respond2xx(r, data)
    \/ \E r \in Req, e \in AxiosErrors : RespondError(r, e)
    \/ \E r \in Req, a \in RefreshData : RefreshResolved(r, a)
    \/ \E r \in Req, re \in RefreshErrors : RefreshRejected(r, re)
    \/ logout


\* the request client on its own: the list view stays as mounted
NoNotifications == NotifInit /\ notifications = <<>>

\* and the Tickets view is entered as an administrator with no parameter
NoEdit == EditInit /\ role = "ADMIN" /\ search = [edit |-> 0, focus |-> 0]

\* and no notification is opened
NoOne == OneInit /\ queryData = <<Item(1, [read_at |-> TRUE, is_read |-> false, read |-> absent])>>

Init == AuthInit /\ FocusInit /\ focusId = 0 /\ view = "Assets" /\ NoNotifications
            /\ NoEdit /\ NoOne

Spec == Init /\ [][AuthNext]_vars

\* the Assets list view on its own: no request is issued
FocusSpecInit == AuthInit /\ localStorage = null /\ FocusInit /\ NoNotifications
                     /\ NoEdit /\ NoOne

FocusSpec == FocusSpecInit /\ [][FocusNext]_vars

\* arrival with the browser running every callback it holds: a timer whose
\* delay has passed fires, an animation frame is delivered
ArrivalSpec ==
    FocusSpecInit /\ [][ArrivalNext]_vars
                  /\ WF_vars(\E t \in timers : FireSetPage(t))
                  /\ WF_vars(\E t \in timers : FireArm(t))
                  /\ WF_vars(\E t \in timers : FireExpire(t))
                  /\ WF_vars(Frame)

\* the notification menu on its own
NotifSpecInit == AuthInit /\ localStorage = null /\ FocusInit /\ focusId = 0
                    /\ view = "Assets" /\ NotifInit /\ NoEdit /\ NoOne

NotifSpec == NotifSpecInit /\ [][NotifNext]_vars

\* markOneReadMut on its own
OneSpecInit == AuthInit /\ localStorage = null /\ FocusInit /\ focusId = 0
                  /\ view = "Assets" /\ NoNotifications /\ NoEdit /\ OneInit

OneSpec == OneSpecInit /\ [][OneNext]_vars

\* the edit auto-open on its own, with the browser running the callback it
\* holds and React rendering the update it holds
EditSpecInit == AuthInit /\ localStorage = null /\ FocusInit /\ focusId = 0
                   /\ view = "Tickets" /\ NoNotifications /\ EditInit /\ NoOne

EditSpec ==
    EditSpecInit /\ [][EditNext]_vars
                 /\ WF_vars(MeLoaded)
                 /\ WF_vars(\E list \in TicketLists : TicketsLoaded(list))
                 /\ WF_vars(RenderLocation)
                 /\ WF_vars(FireOpenEdit)

\* the request client with every network call returning: both clients are
\* created with timeout: 30000, so a call that gets no answer is rejected
FairSpec ==
    Init /\ [][AuthNext]_vars
         /\ \A r \in Req : WF_vars(Respond(r)) /\ WF_vars(RefreshSettles(r))

(***************************************************************************)
(* Properties of the request client.                                       *)
(***************************************************************************)
\* the step in which the response interceptor is called with a new error for r
ErrorArrives(r) == InFlight(r) /\ error'[r] # error[r]

\* the header the client builds from an access token
Bearer(access) == AUTH_SCHEME \o " " \o access

\* C1: every original request causes at most one refresh call and at most
\* one replay, whatever the backend answers; a 401 on the replay is rejected
\* to the caller and starts no further refresh.
C1_RetryOnce ==
    \A r \in Req :
        /\ refreshPosts[r] <= 1
        /\ Len(wire[r]) <= 2
        /\ Len(wire[r]) = 2 => pc[r] = "replayed"
        /\ (error[r].attempt = 2 /\ error[r].status = 401)
              => /\ pc[r] = "done"
                 /\ result[r] = Rejected(error[r])

\* a replayed request was answered 401 after its one refresh
C1_Witness ==
    \E r \in Req :
        /\ error[r].attempt = 2 /\ error[r].status = 401 /\ error[r].config
        /\ refreshPosts[r] = 1 /\ pc[r] = "done"
        /\ result[r] = Rejected(error[r])

\* C2: the step in which a refresh call resolves with an access token leaves
\* in the store that access token together with the refresh token the
\* handler read from the store before it issued the call.
C2_RefreshKeepsRefreshToken ==
    [][\A r \in Req :
          /\ (ErrorArrives(r) /\ pc'[r] = "refreshing")
                => refresh'[r] = tokenStore_get(localStorage).refresh
          /\ (pc[r] = "refreshing" /\ refreshResponse'[r].type = "resolved"
                                   /\ refreshResponse'[r].access # undefined)
                => tokenStore_get(localStorage') =
                      [access |-> refreshResponse'[r].access, refresh |-> refresh[r]]
      ]_vars

\* a refresh has replaced the access token a0 by a1 and kept r0
C2_Witness ==
    \E r \in Req :
        /\ pc[r] = "replayed"
        /\ refreshResponse[r] = RefreshOk("a1")
        /\ wire[r][1] = Bearer("a0")
        /\ localStorage = tokenStore_set([access |-> "a1", refresh |-> "r0"])

\* C3: when a request that was not yet retried is answered 401 and the store
\* holds no refresh token, or when its refresh call is rejected, the handler
\* clears the store, assigns /login to the location and rejects the caller
\* with the 401 error of the original request.
C3_LogoutOnRefreshFailure ==
    [][\A r \in Req :
          (\/ /\ ErrorArrives(r)
              /\ error'[r].status = 401 /\ error'[r].config /\ ~cfg[r]._retry
              /\ tokenStore_get(localStorage).refresh = undefined
           \/ /\ pc[r] = "refreshing"
              /\ refreshResponse'[r].type = "rejected")
          => /\ localStorage' = null
             /\ location' = Append(location, "/login")
             /\ pc'[r] = "done"
             /\ result'[r] = Rejected(error'[r])
             /\ error'[r].attempt = 1 /\ error'[r].status = 401
      ]_vars

\* one request was logged out for want of a refresh token, another because
\* its refresh call was rejected
C3_Witness ==
    \E r, q \in Req :
        /\ pc[r] = "done" /\ refreshResponse[r].type = "none"
        /\ result[r] = Rejected(error[r]) /\ error[r].status = 401 /\ error[r].config
        /\ pc[q] = "done" /\ refreshResponse[q].type = "rejected"
        /\ result[q] = Rejected(error[q])
        /\ localStorage = null
        /\ Len(location) = 2

\* C4: a request that is sent a second time carries the access token its
\* refresh call returned, and its caller gets what the second send produced:
\* the response, or the error of the second send.
C4_ReplayOutcome ==
    \A r \in Req :
        /\ Len(wire[r]) = 2 =>
              /\ refreshResponse[r].type = "resolved"
              /\ wire[r][2] = Bearer(refreshResponse[r].access)
        /\ (refreshResponse[r].type = "resolved" /\ refreshResponse[r].access # undefined)
              => /\ pc[r] \in {"replayed", "done"}
                 /\ pc[r] = "replayed" => Len(wire[r]) = 2
                 /\ pc[r] = "done" =>
                       \/ result[r] = Resolved(2)
                       \/ /\ result[r] = Rejected(error[r])
                          /\ error[r].attempt = 2

\* one replay succeeded and its response reached the caller, another
\* replay failed and its error reached the caller
C4_Witness ==
    \E r, q \in Req :
        /\ refreshResponse[r] = RefreshOk("a1") /\ result[r] = Resolved(2)
        /\ refreshResponse[q] = RefreshOk("a1")
        /\ result[q] = Rejected(error[q]) /\ error[q].attempt = 2

\* C5: an error that is not a 401, or has no response, or has no config, is
\* rejected to the caller as it is; the store, the refresh calls, the sends
\* and the location are left as they were.
C5_PassThrough ==
    [][\A r \in Req :
          (ErrorArrives(r) /\ (error'[r].status # 401 \/ ~error'[r].config))
          => /\ result'[r] = Rejected(error'[r])
             /\ pc'[r] = "done"
             /\ localStorage' = localStorage
             /\ refreshPosts' = refreshPosts
             /\ \A q \in Req : Len(wire'[q]) <= Len(wire[q])
             /\ location' = location
      ]_vars

\* a 500 and a 401 without config were passed through while tokens are stored
C5_Witness ==
    \E r, q \in Req :
        /\ result[r].type = "error" /\ result[r].error.status = 500
        /\ result[q].type = "error" /\ result[q].error.status = 401
        /\ ~result[q].error.config
        /\ localStorage # null
        /\ refreshPosts = [x \in Req |-> 0]
        /\ location = <<>>

\* C6: every send through `api` carries Bearer <access> with the access
\* token the store holds when the request is sent, and no Authorization
\* header when the store is empty.
C6_BearerFromStore ==
    [][\A r \in Req :
          Len(wire'[r]) = Len(wire[r]) + 1
          => wire'[r][Len(wire'[r])] =
                IF localStorage' = null THEN NoHeader
                ELSE Bearer(tokenStore_get(localStorage').access)
      ]_vars

\* after a login was answered, a request went out with the token the login
\* stored
C6_Witness ==
    \E r, q \in Req :
        /\ result[r] = Resolved(1) /\ location = <<"/">>
        /\ wire[q] = <<Bearer("a1")>>
        /\ tokenStore_get(localStorage).access = "a1"

\* how a flow that was triggered by a 401 ended
ReplaySucceeded(r) == result[r] = Resolved(2)
ReplayFailed(r) == result[r].type = "error" /\ result[r].attempt = 2
LoggedOut(r) ==
    /\ result[r].type = "error" /\ result[r].attempt = 1
    /\ \E i \in 1..Len(location) : location[i] = "/login"

Ended(r) ==
    /\ pc[r] = "done"
    /\ \/ ReplaySucceeded(r) /\ ~ReplayFailed(r) /\ ~LoggedOut(r)
       \/ ~ReplaySucceeded(r) /\ ReplayFailed(r) /\ ~LoggedOut(r)
       \/ ~ReplaySucceeded(r) /\ ~ReplayFailed(r) /\ LoggedOut(r)

\* C7: when every network call returns, a flow started by a 401 (line 70 has
\* set _retry) ends in exactly one of replay succeeded, replay failed and
\* logged out; a refresh call that is rejected, with a 401 or otherwise,
\* ends the flow in logged out without a further refresh call.
C7_Terminates ==
    /\ \A r \in Req : [](cfg[r]._retry => <>Ended(r))
    /\ [](\A r \in Req :
             /\ refreshPosts[r] <= 1
             /\ refreshResponse[r].type = "rejected" => pc[r] = "done" /\ LoggedOut(r))

\* a refresh call was answered 401 and the flow ended in logged out
C7_Witness ==
    \E r \in Req :
        /\ refreshPosts[r] = 1
        /\ refreshResponse[r] = RefreshFailed([status |-> 401])
        /\ Ended(r) /\ LoggedOut(r)

\* C8 as stated, for two requests that are both handling a 401: while the
\* refresh call of request r is in flight, the settling of the refresh call
\* of another request does not change the stored value.
C8_NoInterleavedWrite ==
    [][\A r \in Req :
          (/\ pc[r] = "refreshing" /\ pc'[r] = "refreshing"
           /\ \E q \in Req \ {r} : pc[q] = "refreshing" /\ pc'[q] # "refreshing")
          => localStorage' = localStorage
      ]_vars

\* C8 amended: while the refresh call of request r is in flight the flow of
\* r writes nothing, and the stored value changes only through another
\* flow: another request's refresh call settling (its set or its clear), a
\* login request being answered, or logout.
C8_OnlyOtherFlowsWrite ==
    [][\A r \in Req :
        /\ (pc[r] # "refreshing" /\ pc'[r] = "refreshing")
              => localStorage' = localStorage
        /\ (pc[r] = "refreshing" /\ pc'[r] = "refreshing" /\ localStorage' # localStorage)
          => \/ pc' = pc /\ localStorage' = null
             \/ \E q \in Req \ {r} :
                   /\ pc[q] = "refreshing"
                   /\ pc'[q] \in {"replayed", "done"}
                   /\ refreshResponse'[q].type # "none"
             \/ \E q \in Req \ {r} :
                   /\ kind[q] = "login" /\ InFlight(q)
                   /\ result'[q].type = "response"
      ]_vars

\* the refresh call of a request is in flight and the store no longer holds
\* the refresh token the request read
C8_Witness ==
    \E r \in Req :
        /\ pc[r] = "refreshing"
        /\ tokenStore_get(localStorage).refresh # refresh[r]

\* C9: every request whose 401 handler read a refresh token has issued its
\* own refresh call, whatever the other requests are doing, and no request
\* is sent more than twice.
C9_IndependentRefresh ==
    \A r \in Req :
        /\ refresh[r] # undefined => refreshPosts[r] = 1
        /\ refreshPosts[r] <= 1
        /\ pc[r] = "refreshing" =>
              /\ refresh[r] # undefined
              /\ refreshPosts[r] = 1
              /\ refreshResponse[r] = NoRefreshResponse
        /\ Len(wire[r]) <= 1 + refreshPosts[r]

\* two refresh calls are in flight at once
C9_Witness ==
    \E r, q \in Req :
        /\ r # q
        /\ pc[r] = "refreshing" /\ pc[q] = "refreshing"
        /\ refreshPosts[r] = 1 /\ refreshPosts[q] = 1

(***************************************************************************)
(* Properties of the focus effect.                                         *)
(***************************************************************************)
\* C10: for a focus id found at index idx of the filtered rows and page
\* size s, targetPage is the floor of idx / s and rowIndexWithinPage the
\* remainder: 0 <= rowIndexWithinPage < s and
\* targetPage * s + rowIndexWithinPage = idx; idx 17 with s 10 gives page 1,
\* row 7; running the effect again on the same inputs gives the same values.
C10_TargetPage ==
    located # <<>> =>
        LET l == located[1]
            s == l.pageSize
        IN  /\ filteredRows[l.idx + 1] = focusId
            /\ s = effectivePageSize(paginationModel)
            /\ l.targetPage >= 0
            /\ l.targetPage * s <= l.idx /\ l.idx < (l.targetPage + 1) * s
            /\ 0 <= l.rowIndexWithinPage /\ l.rowIndexWithinPage < s
            /\ l.targetPage * s + l.rowIndexWithinPage = l.idx
            /\ (l.idx = 17 /\ s = 10) => (l.targetPage = 1 /\ l.rowIndexWithinPage = 7)
            /\ focusEffect(focusId, filteredRows, paginationModel, pendingFocusRef).locals
                  = located

\* at least 25 rows are shown, the page size is 10 and the focus id is found
\* at index 17
C10_Witness ==
    /\ Len(filteredRows) >= 25
    /\ located = <<[idx |-> 17, pageSize |-> 10, targetPage |-> 1,
                    rowIndexWithinPage |-> 7]>>

\* the expiry timers that are live
ExpiryTimers == {t \in timers : t.fn = "expire"}

\* C11: in every reachable state of each list view at most one
\* highlight-expiry timer is live, and it is the one highlightTimerRef
\* names: arming cancels the previous timer before it starts a new one, also
\* when both effects schedule an arming callback for the same page change
\* and when the same focus id is evaluated twice.
C11_OneExpiryTimer ==
    /\ Cardinality(ExpiryTimers) <= 1
    /\ \A t \in ExpiryTimers : t.id = highlightTimerRef

\* Assignments, arrival on another page: the page change (timer 1) made both
\* effects schedule an arming callback (2 and 3); the first armed timer 4,
\* the render that followed evaluated the same focus id again (5), and the
\* second arming callback replaced timer 4 by timer 6
C11_Witness ==
    /\ view = "Assignments"
    /\ acts = 1
    /\ highlightTimerRef = 6
    /\ ExpiryTimers = {Timer(6, "expire", 0, 0)}

\* the callbacks that a step ran, and those it scheduled
Fired == timers \ timers'
Scheduled == timers' \ timers

\* the focus id is in the URL and is not among these rows
Absent(rows) == focusId # 0 /\ findIndex(rows, focusId) = -1

Expired == mounted /\ highlightTimerRef # 0 /\ ExpiryTimers = {}

\* C13: after a highlight is armed, with the focus parameter of the URL
\* unchanged, the highlight id is cleared only by the firing of the 4500 ms
\* timer, and once that timer has fired the highlight stays cleared, on
\* each of the three views.
C13_HighlightExpiry ==
    [][/\ (highlightId # 0 /\ highlightId' = 0) => \E t \in Fired : t.fn = "expire"
       /\ Expired => highlightId' = 0]_vars

\* a step in which an arming callback set the highlight and its timer
Armed == highlightTimerRef' # highlightTimerRef

\* idx, targetPage and rowIndexWithinPage of the focused record in the rows
\* and the page size of the current state
idxNow == findIndex(filteredRows, focusId)
targetPageNow == targetPageOf(idxNow, effectivePageSize(paginationModel))
rowIndexWithinPageNow == rowIndexWithinPageOf(idxNow, effectivePageSize(paginationModel))

\* a page-change callback created under another page size than the current
StaleSetPage(t) ==
    /\ t.fn = "setPage"
    /\ t.pageSize # effectivePageSize(paginationModel)
    /\ t.targetPage # targetPageNow

\* C14: if the page size changes while a page change requested for the old
\* partition's target page is still pending, no scroll or highlight uses
\* the old (targetPage, rowIndexWithinPage), and the page-change callback
\* scheduled under the old page size does not move the list to its stale
\* target page.
C14_PageSizeRace ==
    [][/\ (mounted /\ Armed /\ ~Absent(filteredRows))
            => /\ pendingFocusRef[1].targetPage = targetPageNow
               /\ pendingFocusRef[1].rowIndexWithinPage = rowIndexWithinPageNow
       /\ \A t \in Fired : (mounted /\ StaleSetPage(t))
            => paginationModel'.page # t.targetPage]_vars

\* the focused record is in the filtered rows, on another page than the
\* current one
OffPage ==
    /\ mounted
    /\ focusId # 0
    /\ idxNow # -1
    /\ paginationModel.page # targetPageNow

\* the list shows the target page, the focused row is highlighted and the
\* grid has been scrolled to its offset within the page
Settled ==
    /\ idxNow # -1
    /\ paginationModel.page = targetPageNow
    /\ highlightId = focusId
    /\ scrolled = rowIndexWithinPageNow

\* C15: for a focus id present in the filtered rows on a page other than
\* the current one, with no user interaction and with timers, frames and
\* renders running, the view eventually shows targetPage with the focused
\* row scrolled to and highlighted; also on Tickets, which has no
\* page-observer effect.
C15_Settles == OffPage ~> Settled

\* Tickets, 12 rows, page size 10, focus on index 10 (id 2): the page went
\* from 0 to 1, row offset 0 was scrolled to and the row is highlighted
C15_Witness ==
    /\ view = "Tickets"
    /\ Len(filteredRows) = 12
    /\ idxNow = 10
    /\ paginationModel = [page |-> 1, pageSize |-> 10]
    /\ highlightId = focusId
    /\ scrolled = 0
    /\ ExpiryTimers # {}

\* C16: every setting of the highlight id and every scroll to the focused
\* row happens in a state where the list's current page equals the target
\* page of the focused record; while the page differs, the coordinator
\* only requests the page change.
C16_ArmsOnTargetPage ==
    [][(mounted /\ ~Absent(filteredRows))
          => /\ Armed => paginationModel.page = targetPageNow
             /\ scrolled' # scrolled => paginationModel.page = targetPageNow]_vars

\* C17: if the filtered rows change while a focus request is pending, no
\* scroll or highlight is performed with a (targetPage, rowIndexWithinPage)
\* computed from the old rows; when the focus id is no longer in the new
\* rows the handle left from the old evaluation triggers nothing.
C17_NoStaleRows ==
    [][(mounted /\ Armed)
          => /\ ~Absent(filteredRows)
             /\ pendingFocusRef[1].targetPage = targetPageNow
             /\ pendingFocusRef[1].rowIndexWithinPage = rowIndexWithinPageNow]_vars

\* C18: after a list view unmounts no highlight timer is live, so none is
\* started by a 0-delay callback that was scheduled before the unmount.
C18_QuietAfterUnmount == ~mounted => ExpiryTimers = {}

\* C19: a focus request is consumed once per arrival: after the highlight
\* has been armed for the focus id, renders that leave the URL as it is
\* (the highlight being set, its expiry) neither arm the highlight nor
\* request a page change again.
C19_ConsumedOnce ==
    [][(mounted /\ highlightTimerRef # 0)
          => /\ ~Armed
             /\ \A t \in Scheduled : t.fn # "setPage"]_vars

(***************************************************************************)
(* Properties of markAllReadMut.                                           *)
(***************************************************************************)
\* the ids of a sequence of items or of api.patch calls
ids(seq) == [i \in 1..Len(seq) |-> seq[i].id]

\* C20: when the bulk endpoint fails, every notification that is unread
\* gets exactly one individual PATCH attempt, in list order, a failing PATCH
\* does not stop the attempts for the remaining items, and the mutation
\* succeeds with null whatever the individual outcomes; when the bulk
\* endpoint succeeds no individual PATCH is issued. No error reaches the
\* caller.
C20_BulkFallback ==
    /\ mutationStatus # "error"
    /\ bulk = "ok" => patches = <<>> /\ mutationStatus = "success" /\ mutationData = "response"
    /\ bulk = "failed" =>
          /\ Len(patches) <= Len(unreadOf(notifications))
          /\ \A i \in 1..Len(patches) : patches[i].id = unreadOf(notifications)[i].id
          /\ \A i \in 1..(Len(patches) - 1) : patches[i].outcome # "pending"
          /\ mutationStatus = "success" <=> /\ ids(patches) = ids(unreadOf(notifications))
                                    /\ \A i \in 1..Len(patches) : patches[i].outcome # "pending"
          /\ mutationStatus = "success" => mutationData = "null"
    /\ mutationStatus = "success" => bulk \in {"ok", "failed"}

\* three unread items, the bulk POST failed, the first and the third PATCH
\* failed, the second succeeded, and the mutation succeeded
C20_Witness ==
    /\ bulk = "failed"
    /\ Len(notifications) = 3
    /\ ids(patches) = <<1, 2, 3>>
    /\ patches[1].outcome = "failed"
    /\ patches[2].outcome = "ok"
    /\ patches[3].outcome = "failed"
    /\ mutationStatus = "success"
    /\ mutationData = "null"

(***************************************************************************)
(* Properties of the edit auto-open of the Tickets view.                   *)
(***************************************************************************)
\* C21: the dialog opens only for an ADMIN and only on the ticket that the
\* edit parameter names and the loaded list holds; the URL changes only by
\* losing its edit parameter, for an ADMIN and a loaded ticket, the focus
\* parameter kept; for a user who is not ADMIN neither the URL nor the
\* dialog state changes; an opening is never scheduled with the edit
\* parameter left in the URL
C21_EditAdminOnly ==
    [][ /\ (openForm' /\ ~openForm) =>
              /\ role = "ADMIN"
              /\ editing' # 0
              /\ editing' = searchParams.edit
              /\ \E i \in 1..Len(tickets) : tickets[i] = editing'
        /\ (search' # search) =>
              /\ role = "ADMIN"
              /\ search.edit # 0
              /\ \E i \in 1..Len(tickets') : tickets'[i] = search.edit
              /\ search'.edit = 0
              /\ search'.focus = search.focus
        /\ (openTimer' # <<>>) => search'.edit = 0
        /\ (role # "ADMIN") =>
              /\ search' = search
              /\ openForm' = openForm
              /\ editing' = editing ]_vars

C21_Witness ==
    /\ role = "ADMIN"
    /\ openForm /\ editing = 2
    /\ search = [edit |-> 0, focus |-> 3]

\* C22: for an ADMIN whose edit parameter names a loaded ticket the dialog
\* eventually opens in every interleaving: the opening that the effect has
\* scheduled is the only thing that opens it and the effect schedules none
\* once the parameter is stripped, so while the loaded list stays the same
\* a scheduled opening must stay scheduled until it has opened the dialog
C22_OpeningNotLost ==
    [][ (role = "ADMIN" /\ openTimer # <<>> /\ tickets' = tickets) =>
            (openTimer' # <<>> \/ (openForm' /\ editing' = openTimer[1])) ]_vars

(***************************************************************************)
(* More properties of the focus-scroll coordinator.                        *)
(***************************************************************************)
\* C23: while a list view is mounted the pending focus handle is non-null
\* only while a focus request is being processed: the focus id is there and
\* is found in the current filtered rows (the handle does not survive an
\* evaluation that ends with an absent or a missing focus id), and a page
\* change or an arming callback is still to run (arming sets it to null)
C23_PendingOnlyInFlight ==
    (mounted /\ pendingFocusRef # <<>>)
        => /\ focusId # 0
           /\ ~Absent(filteredRows)
           /\ \E t \in timers : t.fn \in {"setPage", "armFocus", "armObserver"}

\* C24: for the same rows, page, page size and focus id the Tickets view
\* shows what the Assets view shows. On an arrival the Assets view requests
\* a scroll only in the step that sets the highlight id to a new value, one
\* scroll target for each highlight id value; so on the Tickets view every
\* arming step, which requests the scroll, changes the highlight id
C24_TicketsAsAssets ==
    [][(view = "Tickets" /\ mounted /\ Armed) => highlightId' # highlightId]_vars

(***************************************************************************)
(* More properties of the request client.                                  *)
(***************************************************************************)
\* C25: an empty credential store stays empty until a login request is
\* answered with a pair: no other step, in particular no refresh call that
\* was issued before the logout and resolves after it, stores a pair
C25_EmptyUntilLogin ==
    [][(localStorage = null /\ localStorage' # null)
          => \E q \in Req :
                /\ kind[q] = "login" /\ InFlight(q)
                /\ result'[q].type = "response"]_vars

\* r and q had their refresh calls in flight at the same time: the call of
\* r was rejected, which cleared the store, and the call of q is still in
\* flight; q read its refresh token from the store at line 72, so before
\* that clear, since nothing has stored a pair after it (no login was
\* answered, no other refresh call resolved)
RefreshedConcurrently(r, q) ==
    /\ r # q
    /\ pc[r] = "done" /\ refreshResponse[r].type = "rejected"
    /\ pc[q] = "refreshing"
    /\ \A i \in 1..Len(location) : location[i] # "/"
    /\ \A t \in Req \ {r, q} : refreshResponse[t].type # "resolved"

\* C26: when two requests handle a 401 at the same time and the refresh
\* call of one of them succeeds, the store holds a pair and no redirect to
\* /login has been issued, here at the step in which the second of the two
\* refresh calls resolves with an access token (the location only grows, so
\* a redirect issued by then is still issued when both flows have finished)
C26_OneRefreshSuffices ==
    [][\A r, q \in Req :
          (/\ RefreshedConcurrently(r, q)
           /\ refreshResponse'[q].type = "resolved"
           /\ refreshResponse'[q].access # undefined)
          => /\ localStorage' # null
             /\ \A i \in 1..Len(location') : location'[i] # "/login"]_vars

\* C27: the step in which a refresh call resolves without an access token
\* clears the store, assigns /login to the location and rejects the caller
\* with the 401 error of the original request, which is not sent again
C27_NoAccessIsFailure ==
    [][\A r \in Req :
          (/\ pc[r] = "refreshing"
           /\ refreshResponse'[r].type = "resolved"
           /\ refreshResponse'[r].access = undefined)
          => /\ localStorage' = null
             /\ location' = Append(location, "/login")
             /\ pc'[r] = "done"
             /\ result'[r] = Rejected(error[r])
             /\ error[r].status = 401 /\ error[r].attempt = 1
             /\ Len(wire[r]) = 1 /\ wire'[r] = <<>>]_vars

\* a flow has ended that way
C27_Witness ==
    \E r \in Req :
        /\ pc[r] = "done"
        /\ refreshResponse[r] = RefreshOk(undefined)
        /\ result[r] = Rejected(error[r]) /\ error[r].status = 401
        /\ localStorage = null
        /\ location # <<>> /\ location[Len(location)] = "/login"

\* C28: the step in which the replayed request is answered 401 leaves the
\* store, the location and the refresh calls as they are and rejects the
\* caller with that error
C28_ReplayUnauthorized ==
    [][\A r \in Req :
          (ErrorArrives(r) /\ pc[r] = "replayed" /\ error'[r].status = 401)
          => /\ localStorage' = localStorage
             /\ location' = location
             /\ refreshPosts' = refreshPosts
             /\ pc'[r] = "done"
             /\ result'[r] = Rejected(error'[r])
             /\ error'[r].attempt = 2]_vars

\* a replay was answered 401 and the refreshed pair is still in the store,
\* with no redirect
C28_Witness ==
    \E r \in Req :
        /\ pc[r] = "done"
        /\ refreshResponse[r] = RefreshOk("a1")
        /\ result[r] = Rejected(error[r])
        /\ error[r].status = 401 /\ error[r].attempt = 2
        /\ localStorage = tokenStore_set([access |-> "a1", refresh |-> "r0"])
        /\ location = <<>>

\* C29: a 401 for a login request that was not yet retried is handled like
\* any other: with no refresh token in the store the store is cleared,
\* /login is assigned and the caller rejected; with a refresh token in the
\* store one refresh call is issued, and when it resolves with an access
\* token the login request is sent a second time, and never a third time
C29_LoginThroughInterceptor ==
    [][\A r \in Req :
          /\ (/\ ErrorArrives(r) /\ kind[r] = "login"
              /\ error'[r].status = 401 /\ error'[r].config /\ ~cfg[r]._retry)
             => IF tokenStore_get(localStorage).refresh = undefined
                THEN /\ localStorage' = null
                     /\ location' = Append(location, "/login")
                     /\ pc'[r] = "done"
                     /\ result'[r] = Rejected(error'[r])
                     /\ refreshPosts'[r] = 0
                ELSE /\ pc'[r] = "refreshing"
                     /\ refreshPosts'[r] = 1
                     /\ localStorage' = localStorage
                     /\ location' = location
          /\ (/\ kind[r] = "login" /\ pc[r] = "refreshing"
              /\ refreshResponse'[r].type = "resolved"
              /\ refreshResponse'[r].access # undefined)
             => /\ pc'[r] = "replayed"
                /\ kind'[r] = "login"
                /\ Len(wire'[r]) = 2
                /\ wire'[r][2] = Bearer(refreshResponse'[r].access)
          /\ (kind[r] = "login" /\ Len(wire[r]) = 2) => Len(wire'[r]) \in {0, 2}
      ]_vars

\* a login request is on the wire for the second time after its refresh
C29_Witness ==
    \E r \in Req :
        /\ kind[r] = "login"
        /\ pc[r] = "replayed"
        /\ refreshPosts[r] = 1
        /\ refreshResponse[r] = RefreshOk("a1")
        /\ Len(wire[r]) = 2

(***************************************************************************)
(* Properties of markOneReadMut.                                           *)
(***************************************************************************)
\* C30: the step that starts a mark-one-read call keeps the cached list as
\* the snapshot and marks the item read in the cached list, the other items
\* as they were, before the PATCH has settled; the step in which the PATCH
\* is rejected puts the snapshot back; after the step in which the PATCH
\* succeeds the item is read in the cached list; both settling steps
\* invalidate the notifications query
C30_OptimisticMarkOne ==
    [][\A m \in Mutations :
          /\ (mutations[m].status = "idle" /\ mutations'[m].status = "pending")
                => /\ mutations'[m].prev = queryData
                   /\ Len(queryData') = Len(queryData)
                   /\ \A i \in 1..Len(queryData) :
                         IF queryData[i].id = mutations'[m].id
                         THEN isRead(queryData'[i])
                         ELSE queryData'[i] = queryData[i]
                   /\ invalidations' = invalidations
          /\ (mutations[m].status = "pending" /\ mutations'[m].status = "error")
                => /\ queryData' = mutations[m].prev
                   /\ invalidations' = invalidations + 1
          /\ (mutations[m].status = "pending" /\ mutations'[m].status = "success")
                => /\ \A i \in 1..Len(queryData') :
                         queryData'[i].id = mutations[m].id => isRead(queryData'[i])
                   /\ invalidations' = invalidations + 1
      ]_vars

====
